---------------------------- MODULE Spec2Model ----------------------------
(***************************************************************************)
(* Model of actions/secrets.go: the SecretsResource cache (loaded, index,  *)
(* secrets) behind an embedded sync.RWMutex, the List and Show handlers,   *)
(* ensureLoaded and Load.                                                  *)
(*                                                                         *)
(* Strings that the code takes apart (file names, paths) are sequences of  *)
(* one-character strings, so that TrimPrefix, TrimSuffix, path.Base and    *)
(* path.Dir are computed the way the library computes them.  Strings that  *)
(* the code only passes around (recipient ids, armored text) stay opaque.  *)
(***************************************************************************)
EXTENDS Integers, Sequences, FiniteSets, TLC

(***************************************************************************)
(* Bounds of the model.                                                    *)
(***************************************************************************)
NumProcs == 2        \* concurrent request goroutines
MaxCalls == 2        \* requests the server receives

Procs == 1..NumProcs

(***************************************************************************)
(* Strings as character sequences.                                         *)
(***************************************************************************)
Slash == <<"/">>
Dot == <<".">>
GpgSuffix == <<".", "g", "p", "g">>
GitName == <<".", "g", "i", "t">>

\* byte order of the characters used by the model (ASCII)
Alphabet == <<".", "/", "a", "b", "g", "i", "k", "n", "p", "s", "t", "u", "v", "x">>

RECURSIVE IndexOf(_, _, _)
IndexOf(c, s, i) ==
    IF i > Len(s) THEN 0
    ELSE IF s[i] = c THEN i ELSE IndexOf(c, s, i + 1)

Ord(c) == IndexOf(c, Alphabet, 1)

HasPrefix(s, pre) ==
    /\ Len(s) >= Len(pre)
    /\ SubSeq(s, 1, Len(pre)) = pre

HasSuffix(s, suf) ==
    /\ Len(s) >= Len(suf)
    /\ SubSeq(s, Len(s) - Len(suf) + 1, Len(s)) = suf

\* strings.TrimPrefix
TrimPrefix(s, pre) ==
    IF HasPrefix(s, pre) THEN SubSeq(s, Len(pre) + 1, Len(s)) ELSE s

\* strings.TrimSuffix
TrimSuffix(s, suf) ==
    IF HasSuffix(s, suf) THEN SubSeq(s, 1, Len(s) - Len(suf)) ELSE s

\* index of the last "/" of s, 0 when there is none
RECURSIVE LastSlash(_, _)
LastSlash(s, i) ==
    IF i = 0 THEN 0
    ELSE IF s[i] = "/" THEN i ELSE LastSlash(s, i - 1)

\* s without its trailing slashes
RECURSIVE StripTrailingSlashes(_)
StripTrailingSlashes(s) ==
    IF Len(s) > 0 /\ s[Len(s)] = "/"
    THEN StripTrailingSlashes(SubSeq(s, 1, Len(s) - 1))
    ELSE s

\* the elements of s between slashes, empty elements included
RECURSIVE SplitSlash(_)
SplitSlash(s) ==
    LET i == IndexOf("/", s, 1)
    IN  IF i = 0 THEN <<s>>
        ELSE <<SubSeq(s, 1, i - 1)>> \o SplitSlash(SubSeq(s, i + 1, Len(s)))

RECURSIVE JoinSlash(_)
JoinSlash(elems) ==
    IF Len(elems) = 0 THEN <<>>
    ELSE IF Len(elems) = 1 THEN elems[1]
    ELSE elems[1] \o Slash \o JoinSlash(Tail(elems))

\* path.Clean's element pass: "" and "." dropped, ".." removes the element
\* before it (dropped at the root, kept at the front of a relative path)
RECURSIVE CleanElems(_, _, _)
CleanElems(elems, out, rooted) ==
    IF Len(elems) = 0 THEN out
    ELSE LET e == elems[1]
             rest == Tail(elems)
         IN  IF e = <<>> \/ e = Dot THEN CleanElems(rest, out, rooted)
             ELSE IF e = <<".", ".">>
             THEN IF Len(out) > 0 /\ out[Len(out)] # <<".", ".">>
                  THEN CleanElems(rest, SubSeq(out, 1, Len(out) - 1), rooted)
                  ELSE IF rooted THEN CleanElems(rest, out, rooted)
                  ELSE CleanElems(rest, Append(out, e), rooted)
             ELSE CleanElems(rest, Append(out, e), rooted)

\* path.Clean
Clean(s) ==
    IF s = <<>> THEN Dot
    ELSE LET rooted == s[1] = "/"
             body == JoinSlash(CleanElems(SplitSlash(s), <<>>, rooted))
             r == IF rooted THEN Slash \o body ELSE body
         IN  IF r = <<>> THEN Dot ELSE r

\* path.Base
Base(s) ==
    IF s = <<>> THEN Dot
    ELSE LET t == StripTrailingSlashes(s)
             i == LastSlash(t, Len(t))
             b == SubSeq(t, i + 1, Len(t))
         IN  IF b = <<>> THEN Slash ELSE b

\* path.Dir (filepath.Dir on a slash-separated system)
Dir(s) == Clean(SubSeq(s, 1, LastSlash(s, Len(s))))

\* filepath.Match("*.gpg", name) for a name without separators
MatchGpg(name) == HasSuffix(name, GpgSuffix)


(***************************************************************************)
(* The password store on disk.  A store is the set of its regular files    *)
(* (full paths, as filepath.Walk reports them) and the lines of .gpg-id.   *)
(***************************************************************************)
Root == <<"/", "s">>                                   \* v.store

FileA == Root \o <<"/", "a", "/", "u", ".", "g", "p", "g">>             \* /s/a/u.gpg
FileB == Root \o <<"/", "a", "/", "b", "/", "v", ".", "g", "p", "g">>   \* /s/a/b/v.gpg
FileTop == Root \o <<"/", "u", ".", "g", "p", "g">>                     \* /s/u.gpg
FileGit == Root \o <<"/", ".", "g", "i", "t", "/", "x", ".", "g", "p", "g">>  \* /s/.git/x.gpg
FileTxt == Root \o <<"/", "a", "/", "n", ".", "t", "x", "t">>           \* /s/a/n.txt

GpgIdLines == <<"k2", "", "k1", "k2">>                 \* the lines of /s/.gpg-id

\* root: v.store; files: the regular files below it; hasGpgId, gpgId: whether
\* <root>/.gpg-id can be opened, and its lines
StoreOne == [root |-> Root, files |-> {FileA, FileTop, FileGit, FileTxt},
             hasGpgId |-> TRUE, gpgId |-> GpgIdLines]
StoreTwo == [root |-> Root, files |-> {FileA, FileB},
             hasGpgId |-> TRUE, gpgId |-> GpgIdLines]
Stores == {StoreOne, StoreTwo}

\* raw bytes of a secret file: opaque, one value per file
Content(f) == <<"bytes", f>>

(***************************************************************************)
(* filepath.Walk visits the entries of a directory in lexical order.       *)
(***************************************************************************)
RECURSIVE ElemLess(_, _)
ElemLess(a, b) ==
    IF Len(a) = 0 THEN Len(b) > 0
    ELSE IF Len(b) = 0 THEN FALSE
    ELSE IF a[1] = b[1] THEN ElemLess(Tail(a), Tail(b))
    ELSE Ord(a[1]) < Ord(b[1])

RECURSIVE ElemsLess(_, _)
ElemsLess(x, y) ==
    IF Len(x) = 0 THEN Len(y) > 0
    ELSE IF Len(y) = 0 THEN FALSE
    ELSE IF x[1] = y[1] THEN ElemsLess(Tail(x), Tail(y))
    ELSE ElemLess(x[1], y[1])

WalkBefore(f, g) == ElemsLess(SplitSlash(f), SplitSlash(g))

RECURSIVE WalkOrder(_)
WalkOrder(fs) ==
    IF fs = {} THEN <<>>
    ELSE LET first == CHOOSE f \in fs : \A g \in fs \ {f} : WalkBefore(f, g)
         IN  <<first>> \o WalkOrder(fs \ {first})

\* the elements of the walked path f below root: Walk joins the names it
\* reads to root, and Join cleans the result
RelElems(root, f) ==
    LET r == Clean(root)
        skip == IF r = Dot THEN 0
                ELSE IF r = Slash THEN 1
                ELSE Len(SplitSlash(r))
        e == SplitSlash(f)
    IN  SubSeq(e, skip + 1, Len(e))

\* the directories walked on the way from root down to file f
DirsBelow(root, f) ==
    LET rel == RelElems(root, f)
    IN  {rel[i] : i \in 1..(Len(rel) - 1)}

\* walkFn skips the whole tree when the entry is a directory named .git
UnderGit(root, f) == Base(root) = GitName \/ GitName \in DirsBelow(root, f)

\* walkFn on a regular file that the walk reaches: TRUE when it is appended
WalkFnKeeps(root, f) ==
    /\ Dir(f) # root
    /\ MatchGpg(Base(f))

\* the filenames slice after a walk without error
Walk(root, files) ==
    WalkOrder({f \in files : ~UnderGit(root, f) /\ WalkFnKeeps(root, f)})

(***************************************************************************)
(* normalize: NFKD, then every character outside ASCII dropped.            *)
(***************************************************************************)
NFKD(c) == IF c = "e-acute" THEN <<"e", "combining-acute">> ELSE <<c>>

IsASCII(c) == c \notin {"e-acute", "combining-acute", "sharp-s"}

RECURSIVE Decompose(_)
Decompose(s) == IF Len(s) = 0 THEN <<>> ELSE NFKD(s[1]) \o Decompose(Tail(s))

normalize(s) == SelectSeq(Decompose(s), IsASCII)

(***************************************************************************)
(* Load's loop over the filenames.                                         *)
(***************************************************************************)
SecretStem(root, filename) == TrimSuffix(TrimPrefix(filename, root), GpgSuffix)

Username(root, filename) == Base(SecretStem(root, filename))

SecretPath(root, filename) == TrimPrefix(Dir(SecretStem(root, filename)), Slash)

Item(root, filename) ==
    [domain |-> Base(SecretPath(root, filename)),
     path |-> SecretPath(root, filename),
     username |-> Username(root, filename),
     username_normalized |-> normalize(Username(root, filename))]

SecretName(root, filename) ==
    [path |-> SecretPath(root, filename), username |-> Username(root, filename)]

\* enarmor: the armored text of raw bytes
Armor(bytes) == <<"armor", bytes>>

RECURSIVE BuildIndex(_, _)
BuildIndex(root, filenames) ==
    IF Len(filenames) = 0 THEN <<>>
    ELSE <<Item(root, filenames[1])>> \o BuildIndex(root, Tail(filenames))

EmptyMap == [k \in {} |-> <<>>]

\* m[k] = v of a Go map
MapSet(m, k, v) == [x \in DOMAIN m \cup {k} |-> IF x = k THEN v ELSE m[x]]

RECURSIVE BuildSecrets(_, _, _)
BuildSecrets(root, filenames, m) ==
    IF Len(filenames) = 0 THEN m
    ELSE BuildSecrets(root, Tail(filenames),
                      MapSet(m, SecretName(root, filenames[1]),
                             Armor(Content(filenames[1]))))

\* readIDs without the test for an empty line
ReadIDsAllLines(lines) == lines

\* readIDs: the lines of .gpg-id that are not empty, in file order
ReadIDs(lines) == SelectSeq(lines, LAMBDA id : id # "")

\* the output of gpg --encrypt --armor -r id ...: a ciphertext that differs
\* from one run to the next (run), of the JSON array (items) for ids
Encrypt(items, ids, run) == <<items, ids, run>>

\* the gpg run that produced an encrypted index
IndexRun(ix) == IF Len(ix) = 0 THEN <<>> ELSE ix[3]

\* the identifiers an encrypted index enumerates
IndexNames(ix) ==
    IF Len(ix) = 0 THEN {}
    ELSE {[path |-> ix[1][i].path, username |-> ix[1][i].username] : i \in 1..Len(ix[1])}

(***************************************************************************)
(* Requests.  c.Bind leaves a field that the body lacks at "".             *)
(***************************************************************************)
NameAB == <<"a", "/", "b">>
NameV == <<"v">>

ListRequests == [op : {"List"}, bindOk : BOOLEAN, path : {<<>>}, username : {<<>>}]

ShowRequests ==
    [op : {"Show"}, bindOk : {TRUE}, path : {<<>>, NameAB}, username : {<<>>, NameV}]
    \cup {[op |-> "Show", bindOk |-> FALSE, path |-> <<>>, username |-> <<>>]}

NoRequest == [op |-> "none", bindOk |-> TRUE, path |-> <<>>, username |-> <<>>]

\* responses: the HTTP status the handler renders, and the response string
BadRequest == <<"BadRequest", <<>>>>          \* 400, bind or validation
NotFound == <<"NotFound", <<>>>>              \* 400, "unknown secret"
Unavailable == <<"Unavailable", <<>>>>        \* 500
OK(body) == <<"OK", body>>                    \* 200
NoResponse == <<"none", <<>>>>

(***************************************************************************)
(* State.                                                                  *)
(***************************************************************************)
VARIABLES
    store,      \* the password store on disk, as it is while the server runs
    loaded,     \* v.loaded
    index,      \* v.index
    secrets,    \* v.secrets
    secretsOf,  \* history: the gpg run of the Load that assigned v.secrets
    rwWriter,   \* RWMutex: the goroutine inside Lock()..Unlock(), 0 if none
    rwLocked,   \* RWMutex: that goroutine has the write lock
    rheld,      \* RWMutex: read locks each goroutine holds
    misuse,     \* RWMutex: an RUnlock or Unlock by a goroutine not holding it
    pc,         \* where each goroutine is
    req,        \* the request each goroutine serves
    loc,        \* Load's local variables and its error
    res,        \* the response rendered by the call
    hist,       \* what the call has done so far
    calls       \* requests received so far

vars == <<store, loaded, index, secrets, secretsOf, rwWriter, rwLocked, rheld, misuse,
          pc, req, loc, res, hist, calls>>

shared == <<loaded, index, secrets, secretsOf>>
mutex == <<rwWriter, rwLocked, rheld, misuse>>

NoLoc == [filenames |-> <<>>, items |-> <<>>, secrets |-> EmptyMap,
          ids |-> <<>>, out |-> <<>>, err |-> FALSE]

NoHist == [empty |-> FALSE,    \* ensureLoaded found v.loaded false
           walks |-> 0,        \* filepath.Walk passes
           idReads |-> 0,      \* readIDs calls
           gpgRuns |-> 0,      \* gpg processes started
           gpgOK |-> FALSE,    \* cmd.Run returned nil: gpg exited with status 0
           writes |-> 0,       \* assignments to v.index, v.secrets, v.loaded
           rlocks |-> 0,       \* RLock calls that returned
           runlocks |-> 0,     \* RUnlock calls
           answered |-> FALSE] \* the handler read the snapshot

Init ==
    /\ store \in Stores
    /\ loaded = FALSE
    /\ index = <<>>
    /\ secrets = EmptyMap
    /\ secretsOf = <<>>
    /\ rwWriter = 0
    /\ rwLocked = FALSE
    /\ rheld = [p \in Procs |-> 0]
    /\ misuse = FALSE
    /\ pc = [p \in Procs |-> "idle"]
    /\ req = [p \in Procs |-> NoRequest]
    /\ loc = [p \in Procs |-> NoLoc]
    /\ res = [p \in Procs |-> NoResponse]
    /\ hist = [p \in Procs |-> NoHist]
    /\ calls = 0

Readers == {p \in Procs : rheld[p] > 0}

(***************************************************************************)
(* sync.RWMutex.  Lock() first excludes the other writers and announces    *)
(* itself, which makes every later RLock() wait, then waits for the        *)
(* readers that hold the lock to leave.                                    *)
(***************************************************************************)
CanRLock == rwWriter = 0

CanLock == rwWriter = 0

\* Lock() that returns without waiting for the readers to leave
LockIgnoringReaders(p) == rwWriter = p /\ ~rwLocked

CanLockProceed(p) == rwWriter = p /\ ~rwLocked /\ Readers = {}

DoRLock(p) ==
    /\ rheld' = [rheld EXCEPT ![p] = @ + 1]
    /\ UNCHANGED <<rwWriter, rwLocked, misuse>>

DoRUnlock(p) ==
    /\ rheld' = [rheld EXCEPT ![p] = IF @ > 0 THEN @ - 1 ELSE @]
    /\ misuse' = (misuse \/ rheld[p] = 0)
    /\ UNCHANGED <<rwWriter, rwLocked>>

DoUnlock(p) ==
    /\ rwWriter' = IF rwWriter = p THEN 0 ELSE rwWriter
    /\ rwLocked' = IF rwWriter = p THEN FALSE ELSE rwLocked
    /\ misuse' = (misuse \/ rwWriter # p \/ ~rwLocked)
    /\ UNCHANGED rheld

(***************************************************************************)
(* The handlers.                                                           *)
(***************************************************************************)
Begin(p, r) ==
    /\ pc[p] \in {"idle", "done"}
    /\ calls < MaxCalls
    /\ calls' = calls + 1
    /\ req' = [req EXCEPT ![p] = r]
    /\ UNCHANGED <<store, shared, mutex, loc>>

\* List, lines 44-48: Bind
ListBegin(p) ==
    \E r \in ListRequests :
        /\ Begin(p, r)
        /\ IF r.bindOk
           THEN /\ pc' = [pc EXCEPT ![p] = "rlock"]
                /\ res' = [res EXCEPT ![p] = NoResponse]
                /\ hist' = [hist EXCEPT ![p] = NoHist]
           ELSE /\ pc' = [pc EXCEPT ![p] = "done"]
                /\ res' = [res EXCEPT ![p] = BadRequest]
                /\ hist' = [hist EXCEPT ![p] = NoHist]

\* the checks without the one of the username
WellFormedPathOnly(r) == r.path # <<>>

\* Show's checks of the request, lines 69-74
WellFormed(r) == r.path # <<>> /\ r.username # <<>>

\* Show, lines 64-77: Bind, then the path and username checks
ShowBegin(p) ==
    \E r \in ShowRequests :
        /\ Begin(p, r)
        /\ IF r.bindOk /\ WellFormed(r)
           THEN /\ pc' = [pc EXCEPT ![p] = "rlock"]
                /\ res' = [res EXCEPT ![p] = NoResponse]
                /\ hist' = [hist EXCEPT ![p] = NoHist]
           ELSE /\ pc' = [pc EXCEPT ![p] = "done"]
                /\ res' = [res EXCEPT ![p] = BadRequest]
                /\ hist' = [hist EXCEPT ![p] = NoHist]

\* v.RLock() of List and Show
RLock(p) ==
    /\ pc[p] = "rlock"
    /\ CanRLock
    /\ DoRLock(p)
    /\ pc' = [pc EXCEPT ![p] = "ensure"]
    /\ hist' = [hist EXCEPT ![p].rlocks = @ + 1]
    /\ UNCHANGED <<store, shared, req, loc, res, calls>>

\* ensureLoaded taking the zero value for a snapshot
NeverLoads == FALSE

\* ensureLoaded's test
NeedsLoad == ~loaded

\* ensureLoaded calling Load with the read lock still held
EnsureLoadedHoldingRLock(p) ==
    /\ pc[p] = "ensure"
    /\ IF NeedsLoad
       THEN /\ pc' = [pc EXCEPT ![p] = "walk"]
            /\ hist' = [hist EXCEPT ![p].empty = TRUE]
       ELSE /\ pc' = [pc EXCEPT ![p] = "answer"]
            /\ UNCHANGED hist
    /\ UNCHANGED <<store, shared, mutex, req, loc, res, calls>>

\* ensureLoaded calling Load whatever v.loaded says
EnsureLoadedAlways(p) ==
    /\ pc[p] = "ensure"
    /\ DoRUnlock(p)
    /\ pc' = [pc EXCEPT ![p] = "walk"]
    /\ hist' = [hist EXCEPT ![p].empty = NeedsLoad, ![p].runlocks = @ + 1]
    /\ UNCHANGED <<store, shared, req, loc, res, calls>>

\* ensureLoaded: nothing to do, or v.RUnlock() and on into Load
EnsureLoaded(p) ==
    /\ pc[p] = "ensure"
    /\ IF NeedsLoad
       THEN /\ DoRUnlock(p)
            /\ pc' = [pc EXCEPT ![p] = "walk"]
            /\ hist' = [hist EXCEPT ![p].empty = TRUE, ![p].runlocks = @ + 1]
       ELSE /\ pc' = [pc EXCEPT ![p] = "answer"]
            /\ UNCHANGED <<mutex, hist>>
    /\ UNCHANGED <<store, shared, req, loc, res, calls>>

(***************************************************************************)
(* Load.  Every stage either goes on or returns its error, which takes     *)
(* the goroutine back to ensureLoaded's deferred v.RLock().                *)
(***************************************************************************)
\* a return that loses the error
LoadFailsSilently(p) ==
    /\ loc' = [loc EXCEPT ![p] = NoLoc]
    /\ pc' = [pc EXCEPT ![p] = "relock"]

\* return errors.Wrap(err, ...): Load's locals are dropped
LoadFails(p) ==
    /\ loc' = [loc EXCEPT ![p] = [NoLoc EXCEPT !.err = TRUE]]
    /\ pc' = [pc EXCEPT ![p] = "relock"]

\* a Load that marks the cache empty before it walks
LoadWalkResets(p) ==
    /\ pc[p] = "walk"
    /\ hist' = [hist EXCEPT ![p].walks = @ + 1]
    /\ loaded' = FALSE
    /\ \/ LoadFails(p)
       \/ /\ loc' = [loc EXCEPT ![p].filenames = Walk(store.root, store.files)]
          /\ pc' = [pc EXCEPT ![p] = "read"]
    /\ UNCHANGED <<store, index, secrets, secretsOf, mutex, req, res, calls>>

\* lines 94-116: filepath.Walk(v.store, walkFn)
LoadWalk(p) ==
    /\ pc[p] = "walk"
    /\ hist' = [hist EXCEPT ![p].walks = @ + 1]
    /\ \/ LoadFails(p)                        \* Walk returned walkFn's error
       \/ /\ loc' = [loc EXCEPT ![p].filenames = Walk(store.root, store.files)]
          /\ pc' = [pc EXCEPT ![p] = "read"]
    /\ UNCHANGED <<store, shared, mutex, req, res, calls>>

\* lines 123-144: the index items and the armored secrets of the filenames
LoadRead(p) ==
    /\ pc[p] = "read"
    /\ \/ /\ loc[p].filenames # <<>>          \* readSecret failed on a file
          /\ LoadFails(p)
       \/ /\ loc' = [loc EXCEPT ![p].items = BuildIndex(store.root, loc[p].filenames),
                                ![p].secrets = BuildSecrets(store.root, loc[p].filenames, EmptyMap)]
          /\ pc' = [pc EXCEPT ![p] = "ids"]
    /\ UNCHANGED <<store, shared, mutex, req, res, hist, calls>>

\* lines 145-148: readIDs(v.store)
LoadIDs(p) ==
    /\ pc[p] = "ids"
    /\ hist' = [hist EXCEPT ![p].idReads = @ + 1]
    /\ \/ /\ store.hasGpgId
          /\ loc' = [loc EXCEPT ![p].ids = ReadIDs(store.gpgId)]
          /\ pc' = [pc EXCEPT ![p] = "run"]
       \/ LoadFails(p)                        \* os.Open, the Scanner or Close failed
    /\ UNCHANGED <<store, shared, mutex, req, res, calls>>

\* the gpg process that goroutine p starts now: no two runs share it
GpgRun(p) == <<p, calls>>

\* lines 149-164: json.Marshal and cmd.Run() of gpg --encrypt --armor -r id...
LoadRun(p) ==
    /\ pc[p] = "run"
    /\ \/ /\ loc' = [loc EXCEPT ![p].out = Encrypt(loc[p].items, loc[p].ids, GpgRun(p))]
          /\ pc' = [pc EXCEPT ![p] = "wait"]
          /\ hist' = [hist EXCEPT ![p].gpgRuns = @ + 1, ![p].gpgOK = TRUE]
       \/ /\ LoadFails(p)                     \* gpg did not start or exited non-zero
          /\ hist' = [hist EXCEPT ![p].gpgRuns = @ + 1]
    /\ UNCHANGED <<store, shared, mutex, req, res, calls>>

\* lines 165-168: cmd.Wait() on the command that cmd.Run() has waited for.
\* os/exec answers "exec: Wait was already called" to a second Wait; the nil
\* result is kept as an outcome so that lines 169-174 are part of the model.
WaitResults == {"nil", "error"}

\* v.index assigned before the error of cmd.Wait() is looked at
LoadWaitAssignsFirst(p) ==
    /\ pc[p] = "wait"
    /\ \E r \in WaitResults :
          IF r = "nil"
          THEN pc' = [pc EXCEPT ![p] = "lock"] /\ UNCHANGED <<loc, index>>
          ELSE /\ loc' = [loc EXCEPT ![p] = [NoLoc EXCEPT !.err = TRUE]]
               /\ pc' = [pc EXCEPT ![p] = "relock"]
               /\ index' = loc[p].out
    /\ UNCHANGED <<store, loaded, secrets, secretsOf, mutex, req, res, hist, calls>>

LoadWait(p) ==
    /\ pc[p] = "wait"
    /\ \E r \in WaitResults :
          IF r = "nil"
          THEN pc' = [pc EXCEPT ![p] = "lock"] /\ UNCHANGED loc
          ELSE LoadFails(p)
    /\ UNCHANGED <<store, shared, mutex, req, res, hist, calls>>

\* line 169, v.Lock(): the writer announces itself
LoadLock(p) ==
    /\ pc[p] = "lock"
    /\ CanLock
    /\ rwWriter' = p
    /\ pc' = [pc EXCEPT ![p] = "lockwait"]
    /\ UNCHANGED <<store, shared, rwLocked, rheld, misuse, req, loc, res, hist, calls>>

\* line 169, v.Lock(): the readers have left, Lock returns
LoadLocked(p) ==
    /\ pc[p] = "lockwait"
    /\ CanLockProceed(p)
    /\ rwLocked' = TRUE
    /\ pc' = [pc EXCEPT ![p] = "setIndex"]
    /\ UNCHANGED <<store, shared, rwWriter, rheld, misuse, req, loc, res, hist, calls>>

\* line 171: v.index = buf.String()
LoadSetIndex(p) ==
    /\ pc[p] = "setIndex"
    /\ index' = loc[p].out
    /\ pc' = [pc EXCEPT ![p] = "setSecrets"]
    /\ hist' = [hist EXCEPT ![p].writes = @ + 1]
    /\ UNCHANGED <<store, loaded, secrets, secretsOf, mutex, req, loc, res, calls>>

\* line 172: v.secrets = secrets
LoadSetSecrets(p) ==
    /\ pc[p] = "setSecrets"
    /\ secrets' = loc[p].secrets
    /\ secretsOf' = loc[p].out[3]
    /\ pc' = [pc EXCEPT ![p] = "setLoaded"]
    /\ hist' = [hist EXCEPT ![p].writes = @ + 1]
    /\ UNCHANGED <<store, loaded, index, mutex, req, loc, res, calls>>

\* line 173: v.loaded = true
LoadSetLoaded(p) ==
    /\ pc[p] = "setLoaded"
    /\ loaded' = TRUE
    /\ pc' = [pc EXCEPT ![p] = "unlock"]
    /\ hist' = [hist EXCEPT ![p].writes = @ + 1]
    /\ UNCHANGED <<store, index, secrets, secretsOf, mutex, req, loc, res, calls>>

\* lines 170, 174: the deferred v.Unlock(), return nil
LoadUnlock(p) ==
    /\ pc[p] = "unlock"
    /\ DoUnlock(p)
    /\ pc' = [pc EXCEPT ![p] = "relock"]
    /\ loc' = [loc EXCEPT ![p] = NoLoc]
    /\ UNCHANGED <<store, shared, req, res, hist, calls>>

\* ensureLoaded returning without its deferred v.RLock()
EnsureWithoutRelock(p) ==
    /\ pc[p] = "relock"
    /\ pc' = [pc EXCEPT ![p] = "answer"]
    /\ UNCHANGED <<store, shared, mutex, req, loc, res, hist, calls>>

\* line 182: ensureLoaded's deferred v.RLock()
EnsureRelock(p) ==
    /\ pc[p] = "relock"
    /\ CanRLock
    /\ DoRLock(p)
    /\ pc' = [pc EXCEPT ![p] = "answer"]
    /\ hist' = [hist EXCEPT ![p].rlocks = @ + 1]
    /\ UNCHANGED <<store, shared, req, loc, res, calls>>

(***************************************************************************)
(* The handlers' answers, read from the snapshot under the read lock.      *)
(***************************************************************************)
\* List, lines 52-59
ListResponse(err) == IF err THEN Unavailable ELSE OK(index)

\* the map read without the test of ok
ShowResponseUnchecked(err, r) ==
    IF err THEN Unavailable
    ELSE LET key == [path |-> r.path, username |-> r.username]
         IN  OK(IF key \in DOMAIN secrets THEN secrets[key] ELSE <<>>)

\* Show, lines 80-88: the two-value map read
ShowResponse(err, r) ==
    IF err THEN Unavailable
    ELSE LET key == [path |-> r.path, username |-> r.username]
         IN  IF key \in DOMAIN secrets THEN OK(secrets[key]) ELSE NotFound

ListAnswer(p) ==
    /\ pc[p] = "answer"
    /\ req[p].op = "List"
    /\ res' = [res EXCEPT ![p] = ListResponse(loc[p].err)]
    /\ hist' = [hist EXCEPT ![p].answered = ~loc[p].err]
    /\ pc' = [pc EXCEPT ![p] = "runlock"]
    /\ UNCHANGED <<store, shared, mutex, req, loc, calls>>

ShowAnswer(p) ==
    /\ pc[p] = "answer"
    /\ req[p].op = "Show"
    /\ res' = [res EXCEPT ![p] = ShowResponse(loc[p].err, req[p])]
    /\ hist' = [hist EXCEPT ![p].answered = ~loc[p].err]
    /\ pc' = [pc EXCEPT ![p] = "runlock"]
    /\ UNCHANGED <<store, shared, mutex, req, loc, calls>>

\* lines 50, 79: the deferred v.RUnlock(); the handler returns and its
\* locals are gone
RUnlock(p) ==
    /\ pc[p] = "runlock"
    /\ DoRUnlock(p)
    /\ pc' = [pc EXCEPT ![p] = "done"]
    /\ hist' = [hist EXCEPT ![p] = NoHist]
    /\ loc' = [loc EXCEPT ![p] = NoLoc]
    /\ UNCHANGED <<store, shared, req, res, calls>>

\* the steps of a call once the handler has read its request
Run(p) ==
    \/ RLock(p)
    \/ EnsureLoaded(p)
    \/ LoadWalk(p)
    \/ LoadRead(p)
    \/ LoadIDs(p)
    \/ LoadRun(p)
    \/ LoadWait(p)
    \/ LoadLock(p)
    \/ LoadLocked(p)
    \/ LoadSetIndex(p)
    \/ LoadSetSecrets(p)
    \/ LoadSetLoaded(p)
    \/ LoadUnlock(p)
    \/ EnsureRelock(p)
    \/ ListAnswer(p)
    \/ ShowAnswer(p)
    \/ RUnlock(p)

Step(p) == ListBegin(p) \/ ShowBegin(p) \/ Run(p)

Next == \E p \in Procs : Step(p)

Spec == Init /\ [][Next]_vars

(***************************************************************************)
(* The store as an input of Load: one goroutine serves its calls against   *)
(* a store drawn from the roots PASSWORD_STORE can name, the trees below   *)
(* them and the contents of .gpg-id.                                       *)
(***************************************************************************)
MaxFiles == 3      \* files in a tree
MaxLines == 3      \* lines of .gpg-id

\* filepath.Join, which Walk uses to name what it finds in a directory
Join(dir, name) == Clean(dir \o Slash \o name)

RootSlash == Root \o Slash      \* PASSWORD_STORE=/s/
RootDot == Dot                  \* PASSWORD_STORE unset

Roots == {Root, RootSlash, RootDot}

\* the names of the files of a tree, relative to its root
TreeFiles ==
    {<<"a", "/", "u", ".", "g", "p", "g">>,                        \* a/u.gpg
     <<"a", "/", "b", "/", "v", ".", "g", "p", "g">>,              \* a/b/v.gpg
     <<"u", ".", "g", "p", "g">>,                                  \* u.gpg
     <<".", "g", "i", "t", "/", "x", ".", "g", "p", "g">>,         \* .git/x.gpg
     <<"a", "/", ".", "g", "i", "t", "/", "x", ".", "g", "p", "g">>, \* a/.git/x.gpg
     <<"a", "/", "n", ".", "t", "x", "t">>,                        \* a/n.txt
     <<".", "b", "/", "u", ".", "g", "p", "g">>,                   \* .b/u.gpg
     <<"a", "/", ".", "g", "p", "g">>,                             \* a/.gpg
     <<"a", "/", "a", ".", "g", "p", "g">>}                        \* a/a.gpg

Trees == {fs \in SUBSET TreeFiles : Cardinality(fs) <= MaxFiles}

Lines == {"", "k1", "k2"}

RECURSIVE SeqsUpTo(_, _)
SeqsUpTo(S, n) ==
    IF n = 0 THEN {<<>>}
    ELSE LET shorter == SeqsUpTo(S, n - 1)
         IN  shorter \cup {Append(q, x) : q \in {r \in shorter : Len(r) = n - 1}, x \in S}

StoreInputs ==
    {[root |-> r, files |-> {Join(r, f) : f \in fs},
      hasGpgId |-> TRUE, gpgId |-> GpgIdLines] : r \in Roots, fs \in Trees}
    \cup {[root |-> Root, files |-> {FileA, FileB},
           hasGpgId |-> TRUE, gpgId |-> ls] : ls \in SeqsUpTo(Lines, MaxLines)}
    \cup {[root |-> Root, files |-> {FileA, FileB},
           hasGpgId |-> FALSE, gpgId |-> <<>>]}

InitStore ==
    /\ store \in StoreInputs
    /\ loaded = FALSE
    /\ index = <<>>
    /\ secrets = EmptyMap
    /\ secretsOf = <<>>
    /\ rwWriter = 0
    /\ rwLocked = FALSE
    /\ rheld = [p \in Procs |-> 0]
    /\ misuse = FALSE
    /\ pc = [p \in Procs |-> "idle"]
    /\ req = [p \in Procs |-> NoRequest]
    /\ loc = [p \in Procs |-> NoLoc]
    /\ res = [p \in Procs |-> NoResponse]
    /\ hist = [p \in Procs |-> NoHist]
    /\ calls = 0

(***************************************************************************)
(* The scheduling of the goroutines: a goroutine that can run gets to run, *)
(* every file system step and every gpg run comes to an end, and a         *)
(* goroutine waiting in RLock() or Lock() gets the lock once it is free    *)
(* for it and stays free.  New requests are under no obligation to come.   *)
(***************************************************************************)
SpecFair == Init /\ [][Next]_vars /\ \A p \in Procs : WF_vars(Run(p))

NextStore == Step(1)

SpecStore == InitStore /\ [][NextStore]_vars

(***************************************************************************)
(* Where a goroutine is.                                                   *)
(***************************************************************************)
\* Load's work before v.Lock(): the walk, the reads and armoring, readIDs, gpg
WorkStages == {"walk", "read", "ids", "run", "wait"}

\* inside Load, from the start of the walk to its return
LoadStages == WorkStages \cup {"lock", "lockwait", "setIndex", "setSecrets", "setLoaded", "unlock"}

InLoad(p) == pc[p] \in LoadStages

Returned(p) == pc[p] \in {"idle", "done"}

snapshot == <<loaded, index, secrets>>

(***************************************************************************)
(* C1.  For calls that run concurrently against the empty cache there is   *)
(* one walker pass and one gpg run in total, and the calls all answer the  *)
(* same: violated, every call that finds v.loaded false runs its own Load. *)
(***************************************************************************)
C1_SingleRebuildForConcurrentQueries ==
    \A p, q \in Procs :
        p # q =>
            /\ (InLoad(p) /\ InLoad(q)) =>
                  /\ hist[p].walks + hist[q].walks <= 1
                  /\ hist[p].gpgRuns + hist[q].gpgRuns <= 1
            /\ ( /\ hist[p].empty /\ hist[q].empty
                 /\ pc[p] = "runlock" /\ pc[q] = "runlock"
                 /\ req[p] = req[q] ) => res[p] = res[q]

(***************************************************************************)
(* C2.  Whenever a goroutine holds the read lock, the snapshot is absent   *)
(* (loaded false) or index and secrets come from the same Load and the     *)
(* identifiers the index enumerates are the keys of secrets.               *)
(***************************************************************************)
C2_ReadersSeeOneRebuild ==
    (Readers # {} /\ loaded) =>
        /\ index # <<>>
        /\ IndexRun(index) = secretsOf
        /\ IndexNames(index) = DOMAIN secrets

\* a reader is about to answer from the snapshot that the Load of another
\* goroutine has installed
C2_Witness ==
    \E p \in Procs :
        /\ rheld[p] > 0 /\ pc[p] = "answer" /\ loaded
        /\ \E q \in Procs \ {p} : pc[q] = "relock" /\ ~loc[q].err
                                  /\ IndexRun(index) = <<q, calls>>

(***************************************************************************)
(* C3.  A Load that fails assigns none of index, secrets, loaded: the step *)
(* in which it fails leaves the three as they are, the Load has written    *)
(* nothing before, the handler answers Unavailable, and a cache that was   *)
(* loaded stays loaded.                                                    *)
(***************************************************************************)
C3_FailedRebuildLeavesSnapshot ==
    [][\A p \in Procs :
          /\ (pc[p] \in WorkStages /\ loc'[p].err) =>
                (snapshot' = snapshot /\ hist'[p].writes = 0 /\ pc'[p] = "relock")
          /\ (pc[p] = "answer" /\ loc[p].err /\ pc'[p] = "runlock") =>
                (snapshot' = snapshot /\ res'[p] = Unavailable)
          /\ loaded => loaded']_vars

\* a Load failed while another's snapshot was installed, which is still there
C3_Witness ==
    \E p \in Procs :
        /\ pc[p] = "runlock" /\ loc[p].err /\ res[p] = Unavailable
        /\ loaded /\ index # <<>> /\ IndexNames(index) = DOMAIN secrets

(***************************************************************************)
(* C4.  A List that finds the cache empty and whose walk, reads, readIDs   *)
(* and gpg run all succeed installs the snapshot and answers its index:    *)
(* violated, cmd.Wait() after cmd.Run() makes Load return an error.        *)
(***************************************************************************)
C4_ListLoadsAndAnswers ==
    \A p \in Procs :
        (req[p].op = "List" /\ hist[p].empty /\ hist[p].gpgOK /\ pc[p] = "runlock") =>
            (loaded /\ res[p] = OK(index))

(***************************************************************************)
(* C5.  The walk, the reads, readIDs and the gpg run are done holding the  *)
(* write lock, no other goroutine holding the read lock: violated, Load    *)
(* takes the write lock only for its three assignments.                    *)
(***************************************************************************)
C5_RebuildWorkUnderWriteLock ==
    \A p \in Procs :
        pc[p] \in WorkStages =>
            /\ rwWriter = p /\ rwLocked
            /\ \A q \in Procs \ {p} : rheld[q] = 0

(***************************************************************************)
(* C6.  No two goroutines are inside Load at once: violated.               *)
(***************************************************************************)
C6_OneRebuildAtATime ==
    \A p, q \in Procs : (InLoad(p) /\ InLoad(q)) => p = q

(***************************************************************************)
(* C7.  A well-formed Show whose load succeeded answers NotFound exactly   *)
(* when {path, username} is no key of secrets, and the armored text stored *)
(* under the key otherwise.                                                *)
(***************************************************************************)
C7_ShowFindsTheKey ==
    \A p \in Procs :
        (req[p].op = "Show" /\ pc[p] = "runlock" /\ ~loc[p].err) =>
            LET key == [path |-> req[p].path, username |-> req[p].username]
            IN  /\ res[p] = NotFound <=> key \notin DOMAIN secrets
                /\ key \in DOMAIN secrets => res[p] = <<"OK", secrets[key]>>

\* an unknown secret asked of a populated snapshot
C7_Witness ==
    \E p \in Procs :
        /\ req[p].op = "Show" /\ pc[p] = "runlock" /\ ~loc[p].err
        /\ loaded /\ DOMAIN secrets # {} /\ res[p] = NotFound

(***************************************************************************)
(* C8.  A Show whose path or username is empty answers BadRequest at once: *)
(* it takes no lock, starts no Load even with the cache empty, and leaves  *)
(* index, secrets, loaded as they are.                                     *)
(***************************************************************************)
Malformed(r) == r.op = "Show" /\ r.bindOk /\ (r.path = <<>> \/ r.username = <<>>)

C8_MalformedShowStopsAtValidation ==
    [][\A p \in Procs :
          Malformed(req'[p]) =>
              /\ pc'[p] = "done" /\ res'[p] = BadRequest
              /\ rheld'[p] = 0 /\ hist'[p] = NoHist /\ loc'[p] = NoLoc
              /\ (req'[p] # req[p] \/ pc'[p] # pc[p]) =>
                    (snapshot' = snapshot /\ UNCHANGED mutex)]_vars

\* rejected while the cache is empty
C8_Witness ==
    \E p \in Procs :
        /\ Malformed(req[p]) /\ pc[p] = "done" /\ res[p] = BadRequest
        /\ ~loaded /\ index = <<>>

(***************************************************************************)
(* C9.  A failure is not kept: a failing Load leaves an empty cache empty, *)
(* every call that finds the cache empty starts a Load from nothing and    *)
(* runs it whole (walk, readIDs, gpg, the three assignments) before it     *)
(* answers, and Unavailable is answered only for a failure of the call's   *)
(* own Load.                                                               *)
(***************************************************************************)
C9_Rebuilt(p) ==
    /\ (hist[p].empty /\ pc[p] \in {"relock", "answer", "runlock"}) =>
          /\ hist[p].walks = 1
          /\ ~loc[p].err =>
                /\ hist[p].idReads = 1 /\ hist[p].gpgRuns = 1 /\ hist[p].gpgOK
                /\ hist[p].writes = 3 /\ loaded
    /\ (pc[p] = "runlock" /\ res[p] = Unavailable) => (hist[p].empty /\ loc[p].err)
    /\ (pc[p] = "runlock" /\ ~loc[p].err) => res[p] # Unavailable

C9_FailureIsNotKept ==
    [][\A p \in Procs :
          /\ (pc[p] \in WorkStages /\ loc'[p].err /\ ~loaded) => ~loaded'
          /\ (pc[p] = "ensure" /\ pc'[p] # "ensure" /\ ~loaded) =>
                /\ pc'[p] = "walk" /\ loc'[p] = NoLoc
                /\ hist'[p].walks = 0 /\ hist'[p].idReads = 0 /\ hist'[p].gpgRuns = 0
          /\ C9_Rebuilt(p)']_vars

\* one call has answered Unavailable; a call that found the cache empty has
\* since been through a whole Load
C9_Witness ==
    \E p, q \in Procs :
        /\ pc[p] = "done" /\ res[p] = Unavailable
        /\ pc[q] = "runlock" /\ hist[q].empty /\ hist[q].answered
        /\ hist[q].walks = 1 /\ hist[q].gpgRuns = 1 /\ res[q][1] = "OK"

(***************************************************************************)
(* C10.  Lock and unlock calls balance in every call: a goroutine holds    *)
(* the read lock at most once, RUnlock and Unlock are called only by a     *)
(* holder, a returned handler holds nothing, and with no call in progress  *)
(* the lock is free.                                                       *)
(***************************************************************************)
C10_LocksBalanced ==
    /\ ~misuse
    /\ \A p \in Procs :
          /\ rheld[p] \in {0, 1}
          /\ ~Returned(p) => rheld[p] = hist[p].rlocks - hist[p].runlocks
          /\ Returned(p) => (rheld[p] = 0 /\ rwWriter # p)
          /\ rwWriter = p => (rheld[p] = 0 /\ pc[p] \in LoadStages)
    /\ (\A p \in Procs : Returned(p)) => (rwWriter = 0 /\ ~rwLocked /\ Readers = {})

\* every call has returned, one of them after a failed Load, one with an
\* unknown secret
C10_Witness ==
    /\ \A p \in Procs : Returned(p)
    /\ \E p, q \in Procs : res[p] = Unavailable /\ res[q] = NotFound
    /\ rwWriter = 0 /\ Readers = {}

(***************************************************************************)
(* The files of the store the installed snapshot holds: those whose        *)
(* contents are a value of the secrets map, and those whose identifier is  *)
(* one of its keys.                                                        *)
(***************************************************************************)
SnapshotFiles ==
    {f \in store.files :
        \/ \E k \in DOMAIN secrets : secrets[k] = Armor(Content(f))
        \/ /\ MatchGpg(Base(f))
           /\ SecretName(store.root, f) \in DOMAIN secrets}

\* f matches *.gpg, lies at least one directory below root, and none of the
\* directories between root and f is named .git
Qualifies(root, f) ==
    LET e == RelElems(root, f)
    IN  /\ Len(e) >= 2
        /\ HasSuffix(e[Len(e)], GpgSuffix)
        /\ \A i \in 1..(Len(e) - 1) : e[i] # GitName

NamedDirs(root, f) ==
    LET e == RelElems(root, f) IN SubSeq(e, 1, Len(e) - 1)

NamedUser(root, f) ==
    LET e == RelElems(root, f)
        name == e[Len(e)]
    IN  SubSeq(name, 1, Len(name) - Len(GpgSuffix))

NamedItem(root, f) ==
    [path |-> JoinSlash(NamedDirs(root, f)),
     domain |-> NamedDirs(root, f)[Len(NamedDirs(root, f))],
     username |-> NamedUser(root, f)]

\* C12: once Load has read the files it walked, the item and the key of
\* every secret file <root>/d1/.../dk/u.gpg, k >= 1, have path d1/.../dk,
\* domain dk and username u, and different secret files have different keys.
C12_DecompositionNamesTheFile ==
    \A p \in Procs :
        pc[p] = "ids" =>
            LET fns == loc[p].filenames
                secretFiles == {i \in 1..Len(fns) : Qualifies(store.root, fns[i])}
            IN  /\ Len(loc[p].items) = Len(fns)
                /\ \A i \in secretFiles :
                       /\ loc[p].items[i].path = NamedItem(store.root, fns[i]).path
                       /\ loc[p].items[i].domain = NamedItem(store.root, fns[i]).domain
                       /\ loc[p].items[i].username = NamedItem(store.root, fns[i]).username
                       /\ [path |-> NamedItem(store.root, fns[i]).path,
                           username |-> NamedItem(store.root, fns[i]).username]
                              \in DOMAIN loc[p].secrets
                /\ \A i, j \in secretFiles :
                       fns[i] # fns[j] =>
                           SecretName(store.root, fns[i]) # SecretName(store.root, fns[j])


FastPath(p) == pc[p] \in {"answer", "runlock"} /\ ~hist[p].empty

\* C14: every step of a List or Show call that finds v.loaded true under the
\* read lock, from ensureLoaded's test to the handler's return, leaves index,
\* secrets and loaded as they are, walks nothing, reads no .gpg-id, runs no
\* gpg and does not touch the write side of the lock.
C14_LoadedQueryOnlyReads ==
    [][\A p \in Procs :
          ((pc[p] = "ensure" /\ loaded) \/ FastPath(p)) /\ pc'[p] # pc[p] =>
              /\ snapshot' = snapshot
              /\ rwWriter' = rwWriter
              /\ rwLocked' = rwLocked
              /\ pc'[p] \in {"answer", "runlock", "done"}
              /\ hist'[p].walks = 0
              /\ hist'[p].idReads = 0
              /\ hist'[p].gpgRuns = 0
              /\ hist'[p].writes = 0]_vars

\* a call that found v.loaded true holds the read lock while another
\* goroutine holds it too
C14_Witness ==
    \E p, q \in Procs :
        /\ p # q
        /\ FastPath(p)
        /\ rheld[p] = 1
        /\ rheld[q] = 1
        /\ pc[q] \in {"answer", "runlock"}


\* C15: a List or Show call that found the cache empty reads the snapshot
\* only after its own Load has returned: when it answers with success,
\* loaded is true, its Load made the three assignments, and the index it
\* returns or the map it looks up is an installed one, not the zero value;
\* when its Load failed it answers Unavailable.
C15_AnswersAfterItsLoad ==
    \A p \in Procs :
        pc[p] = "runlock" =>
            /\ res[p] # Unavailable =>
                   /\ loaded
                   /\ index # <<>>
                   /\ secretsOf # <<>>
                   /\ hist[p].answered
                   /\ hist[p].empty => hist[p].writes = 3 /\ ~loc[p].err
                   /\ req[p].op = "List" => res[p] = OK(index) /\ res[p][2] # <<>>
            /\ hist[p].empty /\ loc[p].err => res[p] = Unavailable

\* a call that found the cache empty has loaded and answered with success
C15_Witness ==
    \E p \in Procs :
        /\ pc[p] = "runlock"
        /\ hist[p].empty
        /\ res[p] # Unavailable
        /\ loaded


\* ids holds the non-empty lines, each once per occurrence, in file order
IsRecipients(ids, lines) ==
    LET nonEmpty == {i \in 1..Len(lines) : lines[i] # ""}
    IN  /\ Len(ids) = Cardinality(nonEmpty)
        /\ \A i \in nonEmpty : ids[Cardinality({j \in nonEmpty : j <= i})] = lines[i]

\* C16: gpg is run with exactly the non-empty lines of .gpg-id as its
\* recipients, in file order and with their repetitions, and only after
\* .gpg-id was read: a failed read ends Load with its error before any gpg
\* run, which is the only outcome when the file cannot be opened.
C16_RecipientsAreTheLinesOfGpgId ==
    [][\A p \in Procs :
          /\ pc[p] = "run" /\ pc'[p] # "run" =>
                 /\ store.hasGpgId
                 /\ IsRecipients(loc[p].ids, store.gpgId)
                 /\ hist'[p].gpgRuns = 1
                 /\ pc'[p] = "wait" => loc'[p].out[2] = loc[p].ids
          /\ pc[p] = "ids" /\ pc'[p] # "ids" =>
                 /\ hist[p].gpgRuns = 0
                 /\ pc'[p] \in {"run", "relock"}
                 /\ pc'[p] = "relock" => loc'[p].err /\ hist'[p].gpgRuns = 0
                 /\ ~store.hasGpgId => pc'[p] = "relock"]_vars

\* gpg has run for a .gpg-id with an empty line and a repeated recipient
C16_Witness ==
    \E p \in Procs :
        /\ pc[p] = "wait"
        /\ store.gpgId = <<"k2", "", "k1", "k2">>
        /\ loc[p].out[2] = <<"k2", "k1", "k2">>


\* the handler of goroutine p is at work on a request
InCall(p) == pc[p] \notin {"idle", "done"}

\* C17: every List and Show call that has started returns, and no
\* goroutine asks or waits for the write lock while it holds the read lock.
C17_EveryCallReturns ==
    /\ \A p \in Procs : InCall(p) ~> pc[p] = "done"
    /\ [](\A p \in Procs : pc[p] \in {"lock", "lockwait"} => rheld[p] = 0)

\* a goroutine waits for the write lock while another holds the read lock
C17_Witness ==
    \E p, q \in Procs :
        /\ pc[p] = "lockwait"
        /\ rwWriter = p
        /\ rheld[q] > 0


\* C18: loaded never goes from true to false, whatever calls are made and
\* however their Loads end; index, secrets and loaded change only in a step
\* of the goroutine that holds the write lock, and loaded is set as the
\* last of the three, after the index and the map of the same Load; the
\* step in which a Load fails changes none of them.
C18_LoadedIsMonotonic ==
    [][/\ loaded => loaded'
       /\ snapshot' # snapshot =>
              \E p \in Procs :
                  /\ rwWriter = p /\ rwLocked /\ Readers = {}
                  /\ pc[p] \in {"setIndex", "setSecrets", "setLoaded"}
                  /\ pc'[p] # pc[p]
       /\ \A p \in Procs :
              /\ pc[p] = "setLoaded" /\ pc'[p] # pc[p] =>
                     /\ rwWriter = p /\ rwLocked /\ Readers = {}
                     /\ loaded'
                     /\ ~loc[p].err
                     /\ index = loc[p].out /\ index' = index
                     /\ secrets = loc[p].secrets /\ secrets' = secrets
              /\ loc'[p].err /\ ~loc[p].err => snapshot' = snapshot]_vars

\* a Load has failed while a snapshot is installed, and the snapshot stays
C18_Witness ==
    /\ loaded
    /\ \E p \in Procs : pc[p] = "relock" /\ loc[p].err /\ hist[p].gpgRuns = 1

=============================================================================
